---- MODULE Spec2Model ----
(***************************************************************************)
(* A model of FDBTransaction (src/src/FDBTransaction.ts): the state        *)
(* machine of a transaction, its request queue, its rollback log and the   *)
(* driver _start that the task scheduler re-invokes.                       *)
(*                                                                         *)
(* Every method of the class is an operator over a record w holding the    *)
(* whole program state ("the world"); a method that throws leaves the name *)
(* of the exception in w.exc.  An action of the specification runs one     *)
(* synchronous stretch of code (one call from user code, or one scheduler  *)
(* task) from start to end and stores the resulting world.                 *)
(*                                                                         *)
(* Operations (closures supplied by the object stores), rollback           *)
(* compensations and event listeners are inputs: what they do is chosen    *)
(* from small sets when they run.                                          *)
(***************************************************************************)
EXTENDS Integers, Sequences, FiniteSets, TLC

\* ------------------------------------------------------------------ bounds
\* Pairs {operation, request} ever pushed on the queues, all transactions.
MaxEnq == 3
\* Compensations ever pushed on one transaction's rollback log.
MaxLog == 2

\* ------------------------------------------------------------ fixed inputs
\* The transactions a database can hand out; they share the task scheduler.
Txs == {"t1", "t2"}
\* Store names: what objectStore(name) may be asked for.
StoreNames == {"A", "B"}

\* What an operation() closure does when the driver calls it.
OpKinds == {"ok", "throw", "push", "pushBad", "enqueue", "deactivate"}
\* What the listeners of a request's success/error event do.
ListenerKinds == {"none", "preventDefault", "abort", "abortPrevent", "commit",
                  "enqueue", "continue", "throw", "abortThrow"}
\* The name of the failure a failing operation throws.
OpErrorName == "ConstraintError"

VARIABLES
    _state,             \* tx -> "active" | "inactive" | "committing" | "finished"
    _started,           \* tx -> BOOLEAN
    _rollbackLog,       \* tx -> sequence of compensations [id, throws]
    _objectStoresCache, \* tx -> (store name -> handle id, 0 when absent)
    error,              \* tx -> "null" or the name of the recorded error
    _requests,          \* tx -> sequence of pairs [operation, request]
    fdbRequests,        \* request id -> [readyState, source, result, error, transaction]
    taskQueue,          \* the scheduler's FIFO of [kind, tx]
    tick,               \* scheduler tasks run so far
    hist,               \* what happened, in order: [k, t, e, tick] with k one
                        \* of "op", "success", "error", "aborterror" (the
                        \* "error" event _abort dispatches), "commit",
                        \* "complete", "abort"; e is the pair concerned
    enqueued,           \* pair id -> [t, request, parent]: parent is the pair
                        \* whose operation pushed it (0: pushed by other code)
    lastRollback,       \* tx -> the most recent _abort: whether there was
                        \* one, the compensations it called, whether it
                        \* called all of the log, whether it reached its end
    compRuns,           \* compensation id -> times executed (saturating at 2)
    handles,            \* FDBObjectStore handles created so far: [t, name]
    live,               \* the transactions that have been created
    _scope,             \* tx -> the set of store names it was opened against
    rawObjectStores,    \* the names in the database's registry of stores
    lastCall            \* the call the last step made and how it ended

vars == <<_state, _started, _rollbackLog, _objectStoresCache, error, _requests,
          fdbRequests, taskQueue, tick, hist, enqueued, lastRollback, compRuns,
          handles, live, _scope, rawObjectStores, lastCall>>

\* ----------------------------------------------------------------- helpers
Min(S) == CHOOSE x \in S : \A y \in S : x <= y

\* Array.prototype.reverse
Reverse(s) == [i \in 1..Len(s) |-> s[Len(s) + 1 - i]]

Ids(s) == [i \in 1..Len(s) |-> s[i].id]

\* Index of the first compensation of s that throws, 0 when none does.
FirstThrow(s) ==
    LET I == {i \in 1..Len(s) : s[i].throws}
    IN  IF I = {} THEN 0 ELSE Min(I)

Bump(runs, ran) ==
    [c \in 1..Len(runs) |->
        LET n == runs[c] + Cardinality({i \in 1..Len(ran) : ran[i] = c})
        IN  IF n > 2 THEN 2 ELSE n]

\* What a step reports besides its result: the pair _start processed (0: none),
\* the name of the failure its operation threw,
\* the kind of the listeners its event met, whether the event was canceled,
\* whether dispatchEvent threw, how many times _abort was entered, the state
\* _start found on entry and the state in which the event's dispatch started
\* ("none": no run of _start, no dispatch).
NoInfo == [e |-> 0, opErr |-> "none", ls |-> "none", canceled |-> FALSE,
           dispThrew |-> FALSE, aborts |-> 0, entry |-> "none", seen |-> "none"]

\* The program state as one record.
World ==
    [st |-> _state, started |-> _started, rl |-> _rollbackLog,
     cache |-> _objectStoresCache, err |-> error, q |-> _requests,
     reqs |-> fdbRequests, tasks |-> taskQueue, tick |-> tick, hist |-> hist,
     enq |-> enqueued, lastRb |-> lastRollback, runs |-> compRuns,
     handles |-> handles, exc |-> "none", ret |-> 0, info |-> NoInfo]

Happened(w, k, t, e) ==
    [w EXCEPT !.hist = Append(@, [k |-> k, t |-> t, e |-> e, tick |-> w.tick])]

\* queueTask(cb)
queueTask(w, kind, t) ==
    [w EXCEPT !.tasks = Append(@, [kind |-> kind, tx |-> t])]

\* ------------------------------------------------------------------ _abort
\* Mutant of abortRequests: a request that is done already is written again.
RECURSIVE abortRequestsAll(_, _, _, _)
abortRequestsAll(w, t, i, lt) ==
    IF i > Len(w.q[t]) THEN w
    ELSE LET r == w.q[t][i].request
         IN  IF ~w.reqs[r].source
             THEN abortRequestsAll(
                      [w EXCEPT !.reqs[r].readyState = "done"], t, i + 1, lt)
             ELSE LET w1 == [w EXCEPT !.reqs[r].readyState = "done",
                                      !.reqs[r].result = "undefined",
                                      !.reqs[r].error = "AbortError"]
                      w2 == Happened(w1, "aborterror", t, w.q[t][i].operation)
                  IN  IF lt = r
                      THEN [w2 EXCEPT !.exc = "ListenerError"]
                      ELSE abortRequestsAll(w2, t, i + 1, lt)

\* The loop of _abort over this._requests, from index i on.  lt is the request
\* whose "error" listener throws out of dispatchEvent (0: none does).
RECURSIVE abortRequests(_, _, _, _)
abortRequests(w, t, i, lt) ==
    IF i > Len(w.q[t]) THEN w
    ELSE LET r == w.q[t][i].request
         IN  IF w.reqs[r].readyState = "done"
             THEN abortRequests(w, t, i + 1, lt)
             ELSE IF ~w.reqs[r].source
                  THEN abortRequests(
                           [w EXCEPT !.reqs[r].readyState = "done"], t, i + 1, lt)
                  ELSE LET w1 == [w EXCEPT !.reqs[r].readyState = "done",
                                           !.reqs[r].result = "undefined",
                                           !.reqs[r].error = "AbortError"]
                           w2 == Happened(w1, "aborterror", t, w.q[t][i].operation)
                       IN  IF lt = r
                           THEN [w2 EXCEPT !.exc = "ListenerError"]
                           ELSE abortRequests(w2, t, i + 1, lt)

\* The rollback loop: reverse() reverses the log in place, then each entry is
\* called; the first one that throws ends the loop and _abort.
runRollback(w, t) ==
    LET rev == Reverse(w.rl[t])
        k   == FirstThrow(rev)
        ran == IF k = 0 THEN Ids(rev) ELSE SubSeq(Ids(rev), 1, k)
    IN  [w EXCEPT !.rl[t] = rev,
                  !.runs = Bump(@, ran),
                  !.lastRb[t] = [called |-> TRUE, ran |-> ran,
                                 all |-> (k = 0), completed |-> FALSE],
                  !.exc = IF k = 0 THEN "none" ELSE "CompensationError"]

setError(w, t, errName) ==
    IF errName # "null" THEN [w EXCEPT !.err[t] = errName] ELSE w

\* Mutant of finishAbort: the "abort" event is dispatched inside _abort.
finishAbortSync(w, t) ==
    [Happened(w, "abort", t, 0) EXCEPT !.st[t] = "finished",
                                       !.lastRb[t].completed = TRUE]

\* The end of _abort: the task dispatching "abort" is queued, the state is set.
finishAbort(w, t) ==
    [queueTask(w, "abortEvent", t) EXCEPT !.st[t] = "finished",
                                          !.lastRb[t].completed = TRUE]

\* _abort(errName)
_abort(w, t, errName, lt) ==
    LET w1 == runRollback([w EXCEPT !.exc = "none", !.info.aborts = @ + 1], t)
    IN  IF w1.exc # "none" THEN w1
        ELSE LET w2 == abortRequests(setError(w1, t, errName), t, 1, lt)
             IN  IF w2.exc # "none" THEN w2 ELSE finishAbort(w2, t)

\* abort()
abort(w, t, lt) ==
    IF w.st[t] \in {"committing", "finished"}
    THEN [w EXCEPT !.exc = "InvalidStateError"]
    ELSE _abort([w EXCEPT !.st[t] = "active"], t, "null", lt)

\* Mutant of commit: only a second commit() is refused.
commitLoose(w, t) ==
    IF w.st[t] = "committing"
    THEN [w EXCEPT !.exc = "InvalidStateError"]
    ELSE Happened([w EXCEPT !.st[t] = "committing"], "commit", t, 0)

\* commit()
commit(w, t) ==
    IF w.st[t] # "active"
    THEN [w EXCEPT !.exc = "InvalidStateError"]
    ELSE Happened([w EXCEPT !.st[t] = "committing"], "commit", t, 0)

\* ---------------------------------------------------------------- objectStore
\* Mutant of objectStore: the name is looked up in the registry only.
objectStoreAnyScope(w, t, name) ==
    IF w.st[t] # "active"
    THEN [w EXCEPT !.exc = "InvalidStateError"]
    ELSE IF w.cache[t][name] # 0
         THEN [w EXCEPT !.ret = w.cache[t][name]]
         ELSE IF name \notin rawObjectStores
              THEN [w EXCEPT !.exc = "NotFoundError"]
              ELSE LET h == Len(w.handles) + 1
                   IN  [w EXCEPT !.handles = Append(@, [t |-> t, name |-> name]),
                                 !.cache[t][name] = h,
                                 !.ret = h]

\* Mutant of objectStore: the cache is not consulted.
objectStoreFresh(w, t, name) ==
    IF w.st[t] # "active"
    THEN [w EXCEPT !.exc = "InvalidStateError"]
    ELSE IF name \notin _scope[t] \/ name \notin rawObjectStores
         THEN [w EXCEPT !.exc = "NotFoundError"]
         ELSE LET h == Len(w.handles) + 1
              IN  [w EXCEPT !.handles = Append(@, [t |-> t, name |-> name]),
                            !.cache[t][name] = h,
                            !.ret = h]

objectStore(w, t, name) ==
    IF w.st[t] # "active"
    THEN [w EXCEPT !.exc = "InvalidStateError"]
    ELSE IF w.cache[t][name] # 0
         THEN [w EXCEPT !.ret = w.cache[t][name]]
         ELSE IF name \notin _scope[t] \/ name \notin rawObjectStores
              THEN [w EXCEPT !.exc = "NotFoundError"]
              ELSE LET h == Len(w.handles) + 1
                   IN  [w EXCEPT !.handles = Append(@, [t |-> t, name |-> name]),
                                 !.cache[t][name] = h,
                                 !.ret = h]

\* ---------------------------------------------------------- _execRequestAsync
\* new FDBRequest(), with source and transaction set when a source is given
newRequest(t, source) ==
    [readyState |-> "pending", source |-> source, result |-> "unset",
     error |-> "unset", transaction |-> IF source THEN t ELSE "null"]

\* Mutant of pushPair: unshift() instead of push().
pushPairFront(w, t, r, by, parent) ==
    LET e == Len(w.enq) + 1
    IN  [w EXCEPT !.q[t] = <<[operation |-> e, request |-> r]>> \o @,
                  !.enq = Append(@, [t |-> t, request |-> r,
                                     parent |-> IF by = "operation"
                                                THEN parent ELSE 0]),
                  !.ret = r]

\* this._requests.push({operation, request}); the pair's operation is named by
\* the pair's number in the order of all pushes.
pushPair(w, t, r, by, parent) ==
    LET e == Len(w.enq) + 1
    IN  [w EXCEPT !.q[t] = Append(@, [operation |-> e, request |-> r]),
                  !.enq = Append(@, [t |-> t, request |-> r,
                                     parent |-> IF by = "operation"
                                                THEN parent ELSE 0]),
                  !.ret = r]

\* Mutant of _execRequestAsync: the operation is run at once, inside the call,
\* and its pair is queued as well.
_execRequestAsyncNow(w, t, source, request, by, parent) ==
    IF w.st[t] # "active"
    THEN [w EXCEPT !.exc = "TransactionInactiveError"]
    ELSE LET w1 == IF request = 0
                   THEN pushPair([w EXCEPT !.reqs = Append(@, newRequest(t, source))],
                                 t, Len(w.reqs) + 1, by, parent)
                   ELSE pushPair(w, t, request, by, parent)
         IN  Happened(w1, "op", t, Len(w1.enq))

\* Mutant of _execRequestAsync: only a finished transaction refuses requests.
_execRequestAsyncLoose(w, t, source, request, by, parent) ==
    IF w.st[t] = "finished"
    THEN [w EXCEPT !.exc = "TransactionInactiveError"]
    ELSE IF request = 0
         THEN LET r == Len(w.reqs) + 1
              IN  pushPair([w EXCEPT !.reqs = Append(@, newRequest(t, source))],
                           t, r, by, parent)
         ELSE pushPair(w, t, request, by, parent)

\* Mutant of _execRequestAsync: a pair pushed by a running operation jumps the
\* queue.
_execRequestAsyncJump(w, t, source, request, by, parent) ==
    IF w.st[t] # "active"
    THEN [w EXCEPT !.exc = "TransactionInactiveError"]
    ELSE LET r  == IF request = 0 THEN Len(w.reqs) + 1 ELSE request
             w1 == IF request = 0
                   THEN [w EXCEPT !.reqs = Append(@, newRequest(t, source))]
                   ELSE w
         IN  IF by = "operation" THEN pushPairFront(w1, t, r, by, parent)
             ELSE pushPair(w1, t, r, by, parent)

\* _execRequestAsync(obj): request is obj.request (0 when the caller passes
\* none); by and parent record who made the call.
_execRequestAsync(w, t, source, request, by, parent) ==
    IF w.st[t] # "active"
    THEN [w EXCEPT !.exc = "TransactionInactiveError"]
    ELSE IF request = 0
         THEN LET r == Len(w.reqs) + 1
              IN  pushPair([w EXCEPT !.reqs = Append(@, newRequest(t, source))],
                           t, r, by, parent)
         ELSE pushPair(w, t, request, by, parent)

\* A cursor's continue(): it puts its own request back to pending and
\* enqueues it again.
cursorContinue(w, t, r, e) ==
    IF w.st[t] # "active"
    THEN [w EXCEPT !.exc = "TransactionInactiveError"]
    ELSE _execRequestAsync([w EXCEPT !.reqs[r].readyState = "pending"],
                           t, TRUE, r, "listener", e)

\* ---------------------------------------------------------------------- _start
\* The while loop of _start: the index of the first pair of the queue whose
\* request is not done, 0 when there is none.
firstPending(w, t) ==
    LET I == {i \in 1..Len(w.q[t]) : w.reqs[w.q[t][i].request].readyState # "done"}
    IN  IF I = {} THEN 0 ELSE Min(I)

\* The queue after the loop has shifted the pairs up to index n.
shifted(q, n) == IF n = 0 THEN << >> ELSE SubSeq(q, n + 1, Len(q))

\* operation(): what the closure of pair e does, by its kind.
runOperation(w, t, e, op) ==
    CASE op = "throw" -> [w EXCEPT !.exc = OpErrorName]
      [] op \in {"push", "pushBad"} ->
            [w EXCEPT !.rl[t] = Append(@, [id |-> Len(w.runs) + 1,
                                           throws |-> (op = "pushBad")]),
                      !.runs = Append(@, 0)]
      [] op = "enqueue" -> _execRequestAsync(w, t, TRUE, 0, "operation", e)
      [] op = "deactivate" ->
            IF w.st[t] = "active" THEN [w EXCEPT !.st[t] = "inactive"] ELSE w
      [] OTHER -> w

\* Mutant of settle: an inactive transaction is not put back to active.
settleNoReset(w, t, r) ==
    IF w.exc = "none"
    THEN [w EXCEPT !.reqs[r].readyState = "done",
                   !.reqs[r].result = "value",
                   !.reqs[r].error = "undefined"]
    ELSE [w EXCEPT !.reqs[r].readyState = "done",
                   !.reqs[r].result = "undefined",
                   !.reqs[r].error = w.exc,
                   !.info.opErr = w.exc,
                   !.exc = "none"]

\* The branch of _start after operation() returned or threw: the request's
\* terminal write and the inactive -> active reset.
settle(w, t, r) ==
    LET w1 == IF w.exc = "none"
              THEN [w EXCEPT !.reqs[r].readyState = "done",
                             !.reqs[r].result = "value",
                             !.reqs[r].error = "undefined"]
              ELSE [w EXCEPT !.reqs[r].readyState = "done",
                             !.reqs[r].result = "undefined",
                             !.reqs[r].error = w.exc,
                             !.info.opErr = w.exc,
                             !.exc = "none"]
    IN  IF w1.st[t] = "inactive" THEN [w1 EXCEPT !.st[t] = "active"] ELSE w1

\* What the listeners of the request's event do, by their kind.
listen(w, t, r, e, ls, lt) ==
    CASE ls \in {"abort", "abortPrevent"} -> abort(w, t, lt)
      [] ls = "abortThrow" -> LET w1 == abort(w, t, lt)
                              IN  IF w1.exc # "none" THEN w1
                                  ELSE [w1 EXCEPT !.exc = "ListenerError"]
      [] ls = "commit" -> commit(w, t)
      [] ls = "enqueue" -> _execRequestAsync(w, t, TRUE, 0, "listener", e)
      [] ls = "continue" -> cursorContinue(w, t, r, e)
      [] ls = "throw" -> [w EXCEPT !.exc = "ListenerError"]
      [] OTHER -> w

\* request.dispatchEvent(event): the event is seen, the listeners run; a
\* cancelable event is canceled by a listener that prevents the default.
dispatchEvent(w, t, r, e, ls, lt) ==
    LET kind == IF w.info.opErr = "none" THEN "success" ELSE "error"
        w0   == [w EXCEPT !.info.seen = w.st[t]]
        w1   == listen(Happened(w0, kind, t, e), t, r, e, ls, lt)
    IN  [w1 EXCEPT !.info.ls = ls,
                   !.info.canceled =
                       (kind = "error" /\ ls \in {"preventDefault", "abortPrevent"}),
                   !.info.dispThrew = (w1.exc # "none")]

\* Mutant of dispatchFailed: the catch aborts in every state.
dispatchFailedAlways(w, t, lt) ==
    LET w1 == _abort(w, t, "AbortError", lt)
    IN  IF w1.exc # "none" THEN w1 ELSE [w1 EXCEPT !.exc = w.exc]

\* The catch around dispatchEvent: abort unless committing, then rethrow.
dispatchFailed(w, t, lt) ==
    IF w.st[t] # "committing"
    THEN LET w1 == _abort(w, t, "AbortError", lt)
         IN  IF w1.exc # "none" THEN w1 ELSE [w1 EXCEPT !.exc = w.exc]
    ELSE w

\* Mutant of afterDispatch: the default action runs whether or not the event
\* was canceled.
afterDispatchAlways(w, t, lt) ==
    IF w.info.opErr # "none"
    THEN LET w1 == _abort(w, t, w.info.opErr, lt)
         IN  IF w1.exc # "none" THEN w1 ELSE queueTask(w1, "start", t)
    ELSE queueTask(w, "start", t)

\* After dispatchEvent returned: the default action of an uncanceled error
\* event, then queueTask(_start).
afterDispatch(w, t, lt) ==
    IF w.info.opErr # "none" /\ ~w.info.canceled
    THEN LET w1 == _abort(w, t, w.info.opErr, lt)
         IN  IF w1.exc # "none" THEN w1 ELSE queueTask(w1, "start", t)
    ELSE queueTask(w, "start", t)

\* Mutant of finish: "complete" is dispatched whenever error is unset, also when
\* the transaction is finished already.
finishAlways(w, t) ==
    LET w1 == [w EXCEPT !.st[t] = "finished"]
    IN  IF w1.err[t] = "null" THEN Happened(w1, "complete", t, 0) ELSE w1

\* The end of _start when no pending request was found.
finish(w, t) ==
    IF w.st[t] # "finished"
    THEN LET w1 == [w EXCEPT !.st[t] = "finished"]
         IN  IF w1.err[t] = "null" THEN Happened(w1, "complete", t, 0) ELSE w1
    ELSE w

\* _start()
_start(w, t, op, ls, lt) ==
    LET n  == firstPending(w, t)
        w0 == [w EXCEPT !.started[t] = TRUE, !.q[t] = shifted(@, n),
                        !.info.entry = w.st[t]]
    IN  IF n = 0 THEN finish(w0, t)
        ELSE LET e  == w.q[t][n].operation
                 r  == w.q[t][n].request
                 w1 == runOperation(
                           Happened([w0 EXCEPT !.info.e = e], "op", t, e), t, e, op)
             IN  IF ~w.reqs[r].source
                 THEN IF w1.exc # "none" THEN w1 ELSE queueTask(w1, "start", t)
                 ELSE LET w2 == dispatchEvent(settle(w1, t, r), t, r, e, ls, lt)
                      IN  IF w2.exc # "none"
                          THEN dispatchFailed(w2, t, lt)
                          ELSE afterDispatch(w2, t, lt)

\* ------------------------------------------------------------------- inputs
\* The kinds of operation the pair at index n of t's queue may turn out to be.
\* A request without a source runs code that handles its own errors.
OpChoices(w, t, n) ==
    IF n = 0 THEN {"ok"}
    ELSE {"ok"}
         \cup (IF w.reqs[w.q[t][n].request].source THEN {"throw"} ELSE {})
         \cup (IF Len(w.rl[t]) < MaxLog THEN {"push", "pushBad"} ELSE {})
         \cup (IF w.st[t] = "active" /\ Len(w.enq) < MaxEnq
               THEN {"enqueue"} ELSE {})
         \cup (IF w.st[t] = "active" THEN {"deactivate"} ELSE {})

\* The kinds of listener the event of that pair may meet, given its operation.
ListenerChoices(w, t, n, op) ==
    IF n = 0 \/ ~w.reqs[w.q[t][n].request].source THEN {"none"}
    ELSE LET room == Len(w.enq) + (IF op = "enqueue" THEN 1 ELSE 0) < MaxEnq
         IN  {"none", "abort", "commit", "throw", "abortThrow"}
             \cup (IF op = "throw" THEN {"preventDefault", "abortPrevent"} ELSE {})
             \cup (IF room THEN {"enqueue"} ELSE {})
             \cup (IF room /\ op # "throw" THEN {"continue"} ELSE {})

\* The pending requests of t's queue that have a source: one of them (or none,
\* 0) has an "error" listener that throws when _abort dispatches to it.
ThrowerChoices(w, t) ==
    {0} \cup {w.q[t][i].request : i \in
                 {j \in 1..Len(w.q[t]) :
                     /\ w.reqs[w.q[t][j].request].readyState # "done"
                     /\ w.reqs[w.q[t][j].request].source}}

\* -------------------------------------------------------------------- actions
Init ==
    /\ _state = [t \in Txs |-> "active"]
    /\ _started = [t \in Txs |-> FALSE]
    /\ _rollbackLog = [t \in Txs |-> << >>]
    /\ _objectStoresCache = [t \in Txs |-> [s \in StoreNames |-> 0]]
    /\ error = [t \in Txs |-> "null"]
    /\ _requests = [t \in Txs |-> << >>]
    /\ fdbRequests = << >>
    /\ taskQueue = <<[kind |-> "start", tx |-> "t1"]>>
    /\ live = {"t1"}
    /\ _scope = [t \in Txs |-> IF t = "t1" THEN {"A"} ELSE {"B"}]
    /\ rawObjectStores = {"A"}
    /\ tick = 0
    /\ hist = << >>
    /\ enqueued = << >>
    /\ lastRollback = [t \in Txs |-> [called |-> FALSE, ran |-> << >>,
                                      all |-> FALSE, completed |-> FALSE]]
    /\ compRuns = << >>
    /\ handles = << >>
    /\ lastCall = [name |-> "new", t |-> "null", result |-> "none", ret |-> 0,
                   info |-> NoInfo]

\* The errors a method raises when it is called in a state that forbids it.
ValidationErrors == {"InvalidStateError", "TransactionInactiveError", "NotFoundError"}

\* The world w becomes the next state; the step was the call name on t.  A call
\* from user code that raised a validation error is not remembered as the last
\* call: when it changed nothing, the step leaves every variable as it was.
Store(w, name, t) ==
    /\ _state' = w.st
    /\ _started' = w.started
    /\ _rollbackLog' = w.rl
    /\ _objectStoresCache' = w.cache
    /\ error' = w.err
    /\ _requests' = w.q
    /\ fdbRequests' = w.reqs
    /\ taskQueue' = w.tasks
    /\ tick' = w.tick
    /\ hist' = w.hist
    /\ enqueued' = w.enq
    /\ lastRollback' = w.lastRb
    /\ compRuns' = w.runs
    /\ handles' = w.handles
    /\ live' = live
    /\ _scope' = _scope
    /\ rawObjectStores' = rawObjectStores
    /\ lastCall' = IF name # "_start" /\ w.exc \in ValidationErrors
                   THEN lastCall
                   ELSE [name |-> name, t |-> t, result |-> w.exc, ret |-> w.ret,
                         info |-> w.info]

\* User code calls transaction.abort().
Abort(t) ==
    \E lt \in ThrowerChoices(World, t) : Store(abort(World, t, lt), "abort", t)

\* User code calls transaction.commit().
Commit(t) == Store(commit(World, t), "commit", t)

\* User code calls transaction.objectStore(name).
ObjectStore(t, name) == Store(objectStore(World, t, name), "objectStore", t)

\* An object store or index places a new request on the transaction.
ExecRequestAsync(t, source) ==
    /\ _state[t] = "active" => Len(enqueued) < MaxEnq
    /\ Store(_execRequestAsync(World, t, source, 0, "caller", 0),
             "_execRequestAsync", t)

\* The scheduler runs the task at the head of its queue: an invocation of _start.
RunStart ==
    /\ taskQueue # << >>
    /\ Head(taskQueue).kind = "start"
    /\ LET t  == Head(taskQueue).tx
           w0 == [World EXCEPT !.tasks = Tail(@), !.tick = @ + 1]
           n  == firstPending(w0, t)
       IN  \E op \in OpChoices(w0, t, n) :
           \E ls \in ListenerChoices(w0, t, n, op) :
           \E lt \in ThrowerChoices(w0, t) :
               Store(_start(w0, t, op, ls, lt), "_start", t)

\* The scheduler runs the task _abort queued: the "abort" event is dispatched.
RunAbortEvent ==
    /\ taskQueue # << >>
    /\ Head(taskQueue).kind = "abortEvent"
    /\ LET t  == Head(taskQueue).tx
           w0 == [World EXCEPT !.tasks = Tail(@), !.tick = @ + 1]
       IN  Store(Happened(w0, "abort", t, 0), "abortEvent", t)

Next ==
    \/ \E t \in live : Abort(t)
    \/ \E t \in live : Commit(t)
    \/ \E t \in live : \E source \in BOOLEAN : ExecRequestAsync(t, source)
    \/ RunStart
    \/ RunAbortEvent

Spec == Init /\ [][Next]_vars

\* The scheduler runs every task it has been handed: a queued task is
\* eventually taken from the head of the queue and run.
FairSpec == Spec /\ WF_vars(RunStart) /\ WF_vars(RunAbortEvent)

\* ------------------------------------------------------ two transactions
\* Two transactions of one database share the scheduler; the first _start of
\* each has been queued, in the order of their creation.
InitTwo ==
    /\ _state = [t \in Txs |-> "active"]
    /\ _started = [t \in Txs |-> FALSE]
    /\ _rollbackLog = [t \in Txs |-> << >>]
    /\ _objectStoresCache = [t \in Txs |-> [s \in StoreNames |-> 0]]
    /\ error = [t \in Txs |-> "null"]
    /\ _requests = [t \in Txs |-> << >>]
    /\ fdbRequests = << >>
    /\ taskQueue = <<[kind |-> "start", tx |-> "t1"], [kind |-> "start", tx |-> "t2"]>>
    /\ live = Txs
    /\ _scope = [t \in Txs |-> IF t = "t1" THEN {"A"} ELSE {"B"}]
    /\ rawObjectStores = {"A"}
    /\ tick = 0
    /\ hist = << >>
    /\ enqueued = << >>
    /\ lastRollback = [t \in Txs |-> [called |-> FALSE, ran |-> << >>,
                                      all |-> FALSE, completed |-> FALSE]]
    /\ compRuns = << >>
    /\ handles = << >>
    /\ lastCall = [name |-> "new", t |-> "null", result |-> "none", ret |-> 0,
                   info |-> NoInfo]

\* What operations and listeners do in the two-transaction runs.
OpKindsTwo == {"ok", "throw", "enqueue"}
ListenerKindsTwo == {"none", "preventDefault", "enqueue"}

\* The scheduler runs the _start at the head of its queue.
RunStartTwo ==
    /\ taskQueue # << >>
    /\ Head(taskQueue).kind = "start"
    /\ LET t  == Head(taskQueue).tx
           w0 == [World EXCEPT !.tasks = Tail(@), !.tick = @ + 1]
           n  == firstPending(w0, t)
       IN  \E op \in OpChoices(w0, t, n) \cap OpKindsTwo :
           \E ls \in ListenerChoices(w0, t, n, op) \cap ListenerKindsTwo :
               Store(_start(w0, t, op, ls, 0), "_start", t)

NextTwo ==
    \/ \E t \in live : ExecRequestAsync(t, TRUE)
    \/ \E t \in live : Commit(t)
    \/ \E t \in live : Abort(t)
    \/ RunStartTwo
    \/ RunAbortEvent

SpecTwo == InitTwo /\ [][NextTwo]_vars

\* ------------------------------------------------- object store handles
\* Two transactions opened against any scopes on a database with any registry;
\* user code asks them for store handles, commits and aborts them; no request
\* is placed, so each _start finds its queue empty.
InitStores ==
    /\ _state = [t \in Txs |-> "active"]
    /\ _started = [t \in Txs |-> FALSE]
    /\ _rollbackLog = [t \in Txs |-> << >>]
    /\ _objectStoresCache = [t \in Txs |-> [s \in StoreNames |-> 0]]
    /\ error = [t \in Txs |-> "null"]
    /\ _requests = [t \in Txs |-> << >>]
    /\ fdbRequests = << >>
    /\ taskQueue = <<[kind |-> "start", tx |-> "t1"], [kind |-> "start", tx |-> "t2"]>>
    /\ live = Txs
    /\ _scope \in [Txs -> SUBSET StoreNames]
    /\ rawObjectStores \in SUBSET StoreNames
    /\ tick = 0
    /\ hist = << >>
    /\ enqueued = << >>
    /\ lastRollback = [t \in Txs |-> [called |-> FALSE, ran |-> << >>,
                                      all |-> FALSE, completed |-> FALSE]]
    /\ compRuns = << >>
    /\ handles = << >>
    /\ lastCall = [name |-> "new", t |-> "null", result |-> "none", ret |-> 0,
                   info |-> NoInfo]

NextStores ==
    \/ \E t \in live : \E name \in StoreNames : ObjectStore(t, name)
    \/ \E t \in live : Abort(t)
    \/ \E t \in live : Commit(t)
    \/ RunStart
    \/ RunAbortEvent

SpecStores == InitStores /\ [][NextStores]_vars

\* ===================================================================== claims
\* Positions of hist at which the operation of a pair of t ran.
OpPos(t) == {i \in 1..Len(hist) : hist[i].k = "op" /\ hist[i].t = t}

\* Whether the operation of pair e has run, and where in hist.
Ran(e) == \E i \in 1..Len(hist) : hist[i].k = "op" /\ hist[i].e = e
PosOf(e) == CHOOSE i \in 1..Len(hist) : hist[i].k = "op" /\ hist[i].e = e

HasSource(e) == fdbRequests[enqueued[e].request].source

\* The pairs of t's queue whose request is still pending.
Pending(t) ==
    {i \in 1..Len(_requests[t]) :
        fdbRequests[_requests[t][i].request].readyState # "done"}

\* C1: on one transaction the operations run in the order in which their pairs
\* were enqueued (pair numbers grow with every push), and the success/error
\* event of a request that has a source is dispatched before the next
\* operation of the transaction runs.
C1_EnqueueOrder ==
    \A t \in live : \A i, j \in OpPos(t) :
        i < j =>
            /\ hist[i].e < hist[j].e
            /\ HasSource(hist[i].e) =>
                   \E m \in (i + 1)..(j - 1) :
                       /\ hist[m].k \in {"success", "error"}
                       /\ hist[m].e = hist[i].e

\* Three operations of one transaction have run, the last one on a later tick
\* than its pair was pushed behind others.
C1_Witness ==
    \E t \in live : \E i, j, k \in OpPos(t) :
        i < j /\ j < k /\ hist[i].tick < hist[j].tick /\ hist[j].tick < hist[k].tick

\* C2 as stated: a pair x pushed by the operation of pair y runs before every
\* pair z that was pushed after y and before x (r2a runs before r3).
C2_ChildRunsBeforeQueued ==
    \A x \in 1..Len(enqueued) :
        LET y == enqueued[x].parent
        IN  y # 0 =>
                \A z \in (y + 1)..(x - 1) :
                    (enqueued[z].t = enqueued[x].t /\ Ran(x) /\ Ran(z))
                        => PosOf(x) < PosOf(z)

\* C2, amended: a pair x pushed by the operation of pair y goes to the tail of
\* the queue: it runs after y and after every pair z that was pushed after y
\* and before x (the order is r1, r2, r3, r2a).
C2_ChildRunsAfterQueued ==
    \A x \in 1..Len(enqueued) :
        LET y == enqueued[x].parent
        IN  (y # 0 /\ Ran(x)) =>
                /\ Ran(y) /\ PosOf(y) < PosOf(x)
                /\ \A z \in (y + 1)..(x - 1) :
                       (enqueued[z].t = enqueued[x].t /\ Ran(z))
                           => PosOf(z) < PosOf(x)

\* r2's operation pushed r2a while r3 was queued, and r2, r3 and r2a have run.
C2_Witness ==
    \E x \in 1..Len(enqueued) :
        LET y == enqueued[x].parent
        IN  /\ y # 0
            /\ Ran(x)
            /\ \E z \in (y + 1)..(x - 1) : enqueued[z].t = enqueued[x].t /\ Ran(z)

\* A step that ran _start on t with a request whose operation threw.
ErrorStep(t) ==
    /\ lastCall'.name = "_start"
    /\ lastCall'.t = t
    /\ lastCall'.info.opErr # "none"

StartQueuedLast(t) ==
    /\ taskQueue' # << >>
    /\ taskQueue'[Len(taskQueue')] = [kind |-> "start", tx |-> t]

Descending(s) == \A i, j \in 1..Len(s) : i < j => s[i] > s[j]

\* C4: whenever _abort has run the rollback log, the compensations it called
\* were called in the reverse of the order in which they were appended.
C4_ReverseOrder ==
    \A t \in live : lastRollback[t].called => Descending(lastRollback[t].ran)

\* C5: whenever _abort has run the rollback log, it called every entry of the
\* log, whether or not one of them throws, and a throwing compensation did not
\* keep the abort procedure from finishing the transaction.
C5_EveryCompensationRuns ==
    \A t \in live :
        lastRollback[t].called =>
            /\ lastRollback[t].all
            /\ (\E i \in 1..Len(_rollbackLog[t]) : _rollbackLog[t][i].throws)
                   => _state[t] = "finished"

\* The number of "complete" events dispatched on t.
Completes(t) ==
    Cardinality({i \in 1..Len(hist) : hist[i].k = "complete" /\ hist[i].t = t})

\* The last step was a run of _start on t that found no pending request.
Drained(t) ==
    lastCall.name = "_start" /\ lastCall.t = t /\ lastCall.info.e = 0

\* C6 as stated: whenever the queue of t has drained with error null, exactly
\* one "complete" event has been dispatched on t, also after abort(); with
\* error set, none has.
C6_CompleteOnDrain ==
    \A t \in live :
        /\ (Drained(t) /\ error[t] = "null") => Completes(t) = 1
        /\ error[t] # "null" => Completes(t) = 0

\* C6, amended: a run of _start that finds no pending request while the state
\* is not finished and error is null dispatches the one "complete" event of
\* the transaction; no "complete" event is ever dispatched on a transaction
\* whose error is set or that an abort has finished (abort() leaves error null).
C6_CompleteUnlessAborted ==
    /\ [](\A t \in live :
            /\ Completes(t) <= 1
            /\ (error[t] # "null" \/ lastRollback[t].completed)
                   => Completes(t) = 0
            /\ (Drained(t) /\ error[t] = "null" /\ ~lastRollback[t].completed)
                   => Completes(t) = 1)
    /\ [][\A t \in live :
            (/\ lastCall'.name = "_start" /\ lastCall'.t = t
             /\ lastCall'.info.e = 0
             /\ tick' = tick + 1
             /\ _state[t] # "finished" /\ error[t] = "null")
                => /\ Completes(t) = 0
                   /\ hist' = Append(hist, [k |-> "complete", t |-> t, e |-> 0,
                                            tick |-> tick'])
                   /\ _state'[t] = "finished"]_vars

\* Two operations have run, the queue has drained and "complete" was
\* dispatched once.
C6_Witness ==
    \E t \in live :
        /\ Drained(t) /\ error[t] = "null" /\ Completes(t) = 1
        /\ Cardinality(OpPos(t)) >= 2

\* Whether the operation of pair e has run according to the history h.
RanIn(h, e) == \E i \in 1..Len(h) : h[i].k = "op" /\ h[i].e = e

\* The number of operations of t that have run according to h.
OpCount(h, t) == Cardinality({i \in 1..Len(h) : h[i].k = "op" /\ h[i].t = t})

\* The step dispatched a "complete" event on t.
CompleteFired(t) ==
    /\ Len(hist') > Len(hist)
    /\ \E i \in (Len(hist) + 1)..Len(hist') :
           hist'[i].k = "complete" /\ hist'[i].t = t

\* The step was a successful commit() on t.
CommitStep(t) ==
    /\ lastCall'.name = "commit" /\ lastCall'.t = t
    /\ lastCall' # lastCall \/ hist' # hist

\* C7 as stated: commit() only moves the state to committing; afterwards no
\* pair is pushed, one operation runs per tick, and when the state becomes
\* finished every request that was pending in the queue has been executed.
C7_QueuedRunBeforeFinished ==
    [][\A t \in live :
          /\ CommitStep(t) => _state'[t] = "committing"
          /\ _state[t] = "committing" =>
                /\ Len(_requests'[t]) <= Len(_requests[t])
                /\ OpCount(hist', t) <= OpCount(hist, t) + 1
                /\ _state'[t] = "finished" =>
                       \A i \in Pending(t) :
                           RanIn(hist', _requests[t][i].operation)]_vars

\* C7, amended: commit() only moves the state from active to committing;
\* while committing no call of _execRequestAsync succeeds, a step only shifts
\* pairs off the head of the queue and runs at most one operation, a pending
\* request stops being pending only by its operation running or by an
\* auto-abort, "complete" is dispatched only by a run of _start that finds no
\* pending request, and the state becomes finished only that way or by the
\* auto-abort of an error event nobody canceled.
C7_CommitDrainsOrAborts ==
    /\ [](\A t \in live : \A source \in BOOLEAN :
            _state[t] = "committing" =>
                _execRequestAsync(World, t, source, 0, "caller", 0)
                    = [World EXCEPT !.exc = "TransactionInactiveError"])
    /\ [][\A t \in live :
            /\ CommitStep(t) =>
                  /\ _state[t] = "active"
                  /\ _state' = [_state EXCEPT ![t] = "committing"]
                  /\ ~CompleteFired(t)
                  /\ UNCHANGED <<_requests, fdbRequests, taskQueue, error,
                                 _rollbackLog, tick>>
            /\ _state[t] = "committing" =>
                  /\ _state'[t] \in {"committing", "finished"}
                  /\ \E n \in 0..Len(_requests[t]) :
                         _requests'[t] = SubSeq(_requests[t], n + 1,
                                                Len(_requests[t]))
                  /\ OpCount(hist', t) <= OpCount(hist, t) + 1
                  /\ \A i \in Pending(t) :
                         \/ RanIn(hist', _requests[t][i].operation)
                         \/ lastCall'.info.aborts >= 1
                         \/ \E j \in 1..Len(_requests'[t]) :
                                /\ _requests'[t][j] = _requests[t][i]
                                /\ fdbRequests'[_requests[t][i].request].readyState
                                       = "pending"
                  /\ CompleteFired(t) => Pending(t) = {}
                  /\ _state'[t] = "finished" =>
                         \/ Pending(t) = {} /\ lastCall'.name = "_start"
                         \/ /\ ErrorStep(t)
                            /\ ~lastCall'.info.canceled
                            /\ ~lastCall'.info.dispThrew
                            /\ lastRollback'[t].completed
                            /\ error'[t] = lastCall'.info.opErr]_vars

\* commit() was called with two requests pending; both operations ran after it,
\* on different ticks, and then "complete" was dispatched.
C7_Witness ==
    \E t \in live : \E i, j, k, l \in 1..Len(hist) :
        /\ i < j /\ j < k /\ k < l
        /\ hist[i] = [k |-> "commit", t |-> t, e |-> 0, tick |-> 0]
        /\ hist[j].k = "op" /\ hist[j].t = t
        /\ hist[k].k = "op" /\ hist[k].t = t /\ hist[k].tick > hist[j].tick
        /\ hist[l].k = "complete" /\ hist[l].t = t
        /\ _state[t] = "finished"

\* The step was a call of abort() on t that got past the state check.
AbortStep(t) ==
    /\ lastCall'.name = "abort" /\ lastCall'.t = t
    /\ lastCall'.info.aborts = 1
    /\ lastRollback'[t].called

\* C8: abort() in state committing or finished raises InvalidStateError and
\* changes nothing; abort() in state active or inactive succeeds and leaves the
\* state finished.
C8_AbortByState ==
    /\ [](\A t \in live : \A lt \in ThrowerChoices(World, t) :
            _state[t] \in {"committing", "finished"} =>
                abort(World, t, lt) = [World EXCEPT !.exc = "InvalidStateError"])
    /\ [][\A t \in live :
            (AbortStep(t) /\ _state[t] \in {"active", "inactive"}) =>
                /\ lastCall'.result = "none"
                /\ _state'[t] = "finished"]_vars

\* The step was a call of _execRequestAsync on t from user code that succeeded.
ExecStep(t) ==
    /\ lastCall'.name = "_execRequestAsync" /\ lastCall'.t = t
    /\ enqueued' # enqueued

\* C9: in every state other than active _execRequestAsync raises
\* TransactionInactiveError and changes nothing (no request is created, the
\* queue is as it was); in state active it succeeds and appends exactly one
\* pair, holding a new pending request, at the tail of the queue.
C9_EnqueueOnlyWhenActive ==
    /\ [](\A t \in live : \A source \in BOOLEAN :
            LET w == _execRequestAsync(World, t, source, 0, "caller", 0)
            IN  IF _state[t] # "active"
                THEN w = [World EXCEPT !.exc = "TransactionInactiveError"]
                ELSE /\ w.exc = "none"
                     /\ Len(w.q[t]) = Len(_requests[t]) + 1
                     /\ SubSeq(w.q[t], 1, Len(_requests[t])) = _requests[t]
                     /\ w.q[t][Len(w.q[t])].request = Len(fdbRequests) + 1
                     /\ Len(w.reqs) = Len(fdbRequests) + 1
                     /\ w.reqs[Len(w.reqs)].readyState = "pending"
                     /\ w.st = _state)
    /\ [][\A t \in live : ExecStep(t) =>
            /\ _state[t] = "active"
            /\ UNCHANGED <<_state, error, taskQueue, hist>>
            /\ Len(fdbRequests') = Len(fdbRequests) + 1
            /\ _requests' = [_requests EXCEPT ![t] =
                                Append(@, [operation |-> Len(enqueued'),
                                           request |-> Len(fdbRequests')])]]_vars

\* User code pushed a pair behind another one after the driver had run an
\* operation, and a transaction that is not active holds a queue.
C9_Witness ==
    \E t \in live :
        /\ lastCall.name = "_execRequestAsync" /\ lastCall.t = t
        /\ lastCall.result = "none"
        /\ Len(_requests[t]) >= 2
        /\ _requests[t][Len(_requests[t])].request = lastCall.ret
        /\ OpPos(t) # {}

\* C10: a finished transaction stays finished in every step and no pair is
\* pushed on its queue (a step only shifts pairs off its head); on a finished
\* transaction abort(), commit(), objectStore() and _execRequestAsync raise
\* their error and change nothing, and a run of _start or of _abort leaves the
\* state finished.
C10_FinishedIsTerminal ==
    /\ [][\A t \in live : _state[t] = "finished" =>
            /\ _state'[t] = "finished"
            /\ \E n \in 0..Len(_requests[t]) :
                   _requests'[t] = SubSeq(_requests[t], n + 1, Len(_requests[t]))
         ]_vars
    /\ [](\A t \in live : _state[t] = "finished" =>
            /\ \A lt \in ThrowerChoices(World, t) :
                   /\ abort(World, t, lt) = [World EXCEPT !.exc = "InvalidStateError"]
                   /\ _abort(World, t, OpErrorName, lt).st[t] = "finished"
                   /\ \A op \in OpChoices(World, t, firstPending(World, t)) :
                      \A ls \in ListenerChoices(World, t, firstPending(World, t), op) :
                          _start(World, t, op, ls, lt).st[t] = "finished"
            /\ commit(World, t) = [World EXCEPT !.exc = "InvalidStateError"]
            /\ \A name \in StoreNames :
                   objectStore(World, t, name)
                       = [World EXCEPT !.exc = "InvalidStateError"]
            /\ \A source \in BOOLEAN :
                   _execRequestAsync(World, t, source, 0, "caller", 0)
                       = [World EXCEPT !.exc = "TransactionInactiveError"])

\* An abort finished the transaction with a request still queued, and a later
\* run of _start shifted the queue empty and left the state finished.
C10_Witness ==
    \E t \in live :
        /\ _state[t] = "finished"
        /\ lastRollback[t].completed
        /\ Drained(t)
        /\ \E i \in 1..Len(hist) : hist[i].k = "aborterror" /\ hist[i].t = t

\* C11 as stated: in every state of a transaction, objectStore(name) with a name
\* outside its scope raises NotFoundError, whatever the registry holds, and the
\* scope never changes.
C11_NotFoundInEveryState ==
    /\ [](\A t \in live : \A name \in StoreNames \ _scope[t] :
            objectStore(World, t, name) = [World EXCEPT !.exc = "NotFoundError"])
    /\ [][UNCHANGED _scope]_vars

\* C11: objectStore(name) with a name outside the scope always fails and
\* changes nothing, whatever the registry holds: with NotFoundError when the
\* state is active, with InvalidStateError (the state check comes first) when
\* it is not; no handle is ever cached for a name outside the scope; the scope
\* never changes.
C11_OutOfScopeFails ==
    /\ [](\A t \in live : \A name \in StoreNames \ _scope[t] :
            /\ objectStore(World, t, name) =
                   [World EXCEPT !.exc = IF _state[t] = "active"
                                         THEN "NotFoundError"
                                         ELSE "InvalidStateError"]
            /\ _objectStoresCache[t][name] = 0)
    /\ [][UNCHANGED _scope]_vars

\* A name outside the scope of an active transaction is in the registry, and
\* the transaction has been handed a store of its scope.
C11_Witness ==
    \E t \in live : \E name \in StoreNames \ _scope[t] :
        /\ name \in rawObjectStores
        /\ _state[t] = "active"
        /\ lastCall.name = "objectStore" /\ lastCall.t = t
        /\ \E other \in _scope[t] : _objectStoresCache[t][other] # 0

\* C12: on an active transaction a successful objectStore(name) followed by a
\* second call with the same name returns the same handle, creates no handle and
\* leaves the cache as the first call left it; every cached handle was created
\* by the transaction that caches it, for that name, so no two transactions
\* return the same handle.
C12_HandleCachedPerTransaction ==
    /\ \A t \in live : \A name \in StoreNames :
          LET w1 == objectStore(World, t, name)
              w2 == objectStore(w1, t, name)
          IN  w1.exc = "none" =>
                /\ w2.exc = "none"
                /\ w2.ret = w1.ret
                /\ w2.handles = w1.handles
                /\ w2.cache = w1.cache
                /\ w1.handles[w1.ret] = [t |-> t, name |-> name]
                /\ \A u \in live \ {t} : \A other \in StoreNames :
                       w1.cache[u][other] # w1.ret
    /\ \A t \in live : \A name \in StoreNames :
          _objectStoresCache[t][name] # 0 =>
              handles[_objectStoresCache[t][name]] = [t |-> t, name |-> name]

\* Two transactions each hold a cached handle of the same store, and the last
\* call was an objectStore() that found its handle in the cache.
C12_Witness ==
    \E t \in live : \E u \in live \ {t} : \E name \in StoreNames :
        /\ _objectStoresCache[t][name] # 0
        /\ _objectStoresCache[u][name] # 0
        /\ lastCall.name = "objectStore" /\ lastCall.t = t
        /\ lastCall.ret = _objectStoresCache[t][name]
        /\ lastCall.ret < Len(handles)

\* The indexes of hist at which the "abort" event of t was dispatched.
AbortEvents(t) == {i \in 1..Len(hist) : hist[i].k = "abort" /\ hist[i].t = t}

\* C13: the "abort" event of a transaction is dispatched only by the scheduler
\* task _abort queued, never inside _abort: the step that dispatches it is a
\* task of its own that finds the state finished already, and its tick is
\* strictly later than the tick of every "error" event dispatched before it on
\* the transaction's requests (the one that triggered the abort and the ones
\* _abort delivered to the pending requests).
C13_AbortEventOnLaterTick ==
    /\ [](\A t \in live : \A i \in AbortEvents(t) : \A j \in 1..(i - 1) :
            (hist[j].t = t /\ hist[j].k \in {"error", "aborterror"}) =>
                hist[j].tick < hist[i].tick)
    /\ [][\A t \in live :
            (\E i \in (Len(hist) + 1)..Len(hist') :
                 hist'[i].k = "abort" /\ hist'[i].t = t) =>
                /\ lastCall'.name = "abortEvent"
                /\ lastCall'.info.aborts = 0
                /\ tick' = tick + 1
                /\ hist' = Append(hist, [k |-> "abort", t |-> t, e |-> 0,
                                          tick |-> tick'])
                /\ _state[t] = "finished"
                /\ _state'[t] = "finished"]_vars

\* An operation failed, its uncancelled error event aborted the transaction,
\* a request still pending got its error event, and the "abort" event fired.
C13_Witness ==
    \E t \in live : \E i \in AbortEvents(t) : \E j \in 1..(i - 1) :
    \E k \in (j + 1)..(i - 1) :
        /\ hist[j].t = t /\ hist[j].k = "error"
        /\ hist[k].t = t /\ hist[k].k = "aborterror" /\ hist[k].tick = hist[j].tick
        /\ error[t] = OpErrorName

\* The step entered _abort on t (from abort(), or from _start).
AbortEntered(t) == lastCall'.t = t /\ lastCall'.info.aborts >= 1

\* Request r was not done before the step (a request the step created counts).
PendingBefore(r) ==
    r > Len(fdbRequests) \/ fdbRequests[r].readyState # "done"

\* C14: a step in which the transaction aborts leaves every request of its
\* queue done; each of them that was pending and has a source holds result
\* undefined and an AbortError and got an "error" event in that step; _start
\* only ever executes the operation of a request that is not done, and never
\* one whose request got the "error" event of an abort.
C14_PendingCancelledOnAbort ==
    /\ [][\A t \in live : AbortEntered(t) =>
            \A i \in 1..Len(_requests'[t]) :
                LET r == _requests'[t][i].request
                    e == _requests'[t][i].operation
                IN  /\ fdbRequests'[r].readyState = "done"
                    /\ (PendingBefore(r) /\ fdbRequests'[r].source) =>
                          /\ fdbRequests'[r].result = "undefined"
                          /\ fdbRequests'[r].error = "AbortError"
                          /\ \E j \in (Len(hist) + 1)..Len(hist') :
                                 hist'[j] = [k |-> "aborterror", t |-> t, e |-> e,
                                             tick |-> tick']]_vars
    /\ [][\A t \in live :
            (lastCall'.name = "_start" /\ lastCall'.t = t /\ lastCall'.info.e # 0) =>
                fdbRequests[enqueued[lastCall'.info.e].request].readyState
                    = "pending"]_vars
    /\ [](\A i \in 1..Len(hist) : \A j \in 1..Len(hist) :
            (hist[i].k = "aborterror" /\ hist[j].k = "op" /\ hist[i].e = hist[j].e)
                => j < i)

\* The step was a run of _start on t that processed a request.
ProcessStep(t) ==
    lastCall'.name = "_start" /\ lastCall'.t = t /\ lastCall'.info.e # 0

\* A started transaction is stuck: it is committing, so abort() is refused and
\* nothing can be enqueued, and no task is queued that would run its _start.
Stalled(t) ==
    /\ _started[t]
    /\ _state[t] = "committing"
    /\ taskQueue = << >>

\* C15: every run of _start that processes a request queues another run of
\* _start, however the run ends; so no started transaction is ever stuck, and
\* every started transaction eventually reaches state finished.
C15_AlwaysRescheduledAndFinishes ==
    /\ [][\A t \in live : ProcessStep(t) => StartQueuedLast(t)]_vars
    /\ [](\A t \in live : ~Stalled(t))
    /\ \A t \in Txs : (t \in live /\ _started[t]) ~> (_state[t] = "finished")

\* The entries a step appended to hist.
Added == SubSeq(hist', Len(hist) + 1, Len(hist'))

\* C16: with two transactions on one scheduler, no two operations run in the
\* same tick; only a run of _start executes an operation, exactly one, as the
\* first thing recorded in its tick; everything else the step records (the
\* request's event, the "error" events of a default-action abort) belongs to
\* the same transaction and the same tick, so the operations and events of
\* another transaction come only in other ticks.
C16_OneOperationPerTick ==
    /\ [](\A i \in 1..Len(hist) : \A j \in 1..Len(hist) :
            (i # j /\ hist[i].k = "op" /\ hist[j].k = "op") =>
                hist[i].tick # hist[j].tick)
    /\ [][/\ \A i \in 1..Len(Added) :
                /\ Added[i].t = lastCall'.t
                /\ Added[i].tick = tick'
                /\ Added[i].k = "op" =>
                      /\ i = 1
                      /\ lastCall'.name = "_start"
                      /\ Added[i].e = lastCall'.info.e
                      /\ tick' = tick + 1
           /\ \A t \in live : ProcessStep(t) =>
                /\ Added # << >>
                /\ Added[1] = [k |-> "op", t |-> t, e |-> lastCall'.info.e,
                               tick |-> tick']
           /\ hist = SubSeq(hist', 1, Len(hist))]_vars

\* An operation of t ran, then in a later tick an operation of u that failed
\* and whose default action aborted u, delivering an "error" event to a request
\* of u still pending, while t is still running.
C16_Witness ==
    \E t \in live : \E u \in live \ {t} :
    \E i \in OpPos(t) : \E j \in OpPos(u) :
        /\ i < j
        /\ j + 2 <= Len(hist)
        /\ hist[j + 1].k = "error" /\ hist[j + 1].e = hist[j].e
        /\ hist[j + 2].k = "aborterror" /\ hist[j + 2].tick = hist[j].tick
        /\ _state[u] = "finished"
        /\ _state[t] = "active"

\* The edges the state machine is said to have.
ClaimedEdges ==
    {<<"active", "inactive">>, <<"inactive", "active">>, <<"active", "committing">>,
     <<"committing", "finished">>, <<"active", "finished">>}

\* The pairs <<a, b>> with b reached from a along one or more of the edges E.
Paths(E) ==
    LET S == {"active", "inactive", "committing", "finished"}
        Twice(P) == P \cup {p \in S \X S :
                       \E b \in S : <<p[1], b>> \in P /\ <<b, p[2]>> \in P}
    IN  Twice(Twice(E))

\* The step ran _start on t and an event of a request was dispatched in it.
DispatchStep(t) ==
    lastCall'.name = "_start" /\ lastCall'.t = t /\ lastCall'.info.seen # "none"

\* The step ran _start on t and found no pending request: its only assignment
\* to the state is the one that finishes the transaction.
DrainStep(t) ==
    lastCall'.name = "_start" /\ lastCall'.t = t /\ lastCall'.info.e = 0

\* commit() was called on t in the step and succeeded.
Committed(t) ==
    \E i \in 1..Len(Added) : Added[i].k = "commit" /\ Added[i].t = t

\* In every state but active, commit() raises InvalidStateError and changes
\* nothing; in state active it moves the transaction to committing.
CommitByState ==
    \A t \in live :
        IF _state[t] # "active"
        THEN commit(World, t) = [World EXCEPT !.exc = "InvalidStateError"]
        ELSE /\ commit(World, t).exc = "none"
             /\ commit(World, t).st = [_state EXCEPT ![t] = "committing"]

\* C17 as stated: a step changes the state along the claimed edges only (one
\* edge when the step assigns the state once, as a run of _start that finds
\* nothing pending does); committing is entered by commit() from active only
\* and commit() is refused elsewhere; committing never goes back to active or
\* inactive; the state is inactive when the dispatch of a request's event
\* starts and active after the step.
C17_ClaimedEdgesOnly ==
    /\ [][\A t \in live : _state'[t] # _state[t] =>
            /\ <<_state[t], _state'[t]>> \in Paths(ClaimedEdges)
            /\ DrainStep(t) => <<_state[t], _state'[t]>> \in ClaimedEdges
            /\ _state'[t] = "committing" => Committed(t)
            /\ _state[t] = "committing" => _state'[t] = "finished"]_vars
    /\ []CommitByState
    /\ [][\A t \in live : DispatchStep(t) =>
            lastCall'.info.seen = "inactive"]_vars

\* C17: a step changes the state along paths of the edges inactive->active,
\* active->inactive, active->committing, active->finished,
\* committing->finished and inactive->finished (a run of _start that finds
\* nothing pending finishes an inactive transaction directly); committing is
\* entered by commit() only, called in state active (by user code, or by a
\* listener during a dispatch that started in state active), and commit() is
\* refused in every other state; committing never goes back to active or
\* inactive; the transaction never enters inactive by itself (only a running
\* operation of a request without a source leaves it inactive), and no
\* dispatch starts in state inactive: _start puts an inactive transaction back
\* to active before it dispatches the request's event.
C17_StateEdges ==
    /\ [][\A t \in live : _state'[t] # _state[t] =>
            /\ <<_state[t], _state'[t]>> \in
                   Paths(ClaimedEdges \cup {<<"inactive", "finished">>})
            /\ DrainStep(t) =>
                   <<_state[t], _state'[t]>> \in
                       {<<"active", "finished">>, <<"committing", "finished">>,
                        <<"inactive", "finished">>}
            /\ _state'[t] = "committing" =>
                   /\ Committed(t)
                   /\ IF lastCall'.name = "commit"
                      THEN _state[t] = "active"
                      ELSE lastCall'.info.seen = "active"
            /\ _state[t] = "committing" => _state'[t] = "finished"
            /\ _state'[t] = "inactive" =>
                   /\ ProcessStep(t)
                   /\ ~fdbRequests[enqueued[lastCall'.info.e].request].source]_vars
    /\ []CommitByState
    /\ [][\A t \in live : DispatchStep(t) =>
            /\ lastCall'.info.seen \in {"active", "committing"}
            /\ lastCall'.info.entry = "inactive" => lastCall'.info.seen = "active"
            /\ _state'[t] # "inactive"]_vars

\* A run of _start found the transaction inactive, ran the operation of a
\* request with a source and dispatched its event in state active.
C17_Witness ==
    \E t \in live :
        /\ lastCall.name = "_start" /\ lastCall.t = t
        /\ lastCall.info.entry = "inactive"
        /\ lastCall.info.seen = "active"
        /\ lastCall.info.e # 0

\* The terminal writes recorded for pair e: its request was set done by its
\* operation ending ("success", "error") or by an abort ("aborterror").
TerminalWrites(e) ==
    {i \in 1..Len(hist) :
        hist[i].e = e /\ hist[i].k \in {"success", "error", "aborterror"}}

\* The pairs that were enqueued with request r.
PairsOf(r) == {e \in 1..Len(enqueued) : enqueued[e].request = r}

\* A request is fresh (pending, nothing written), or holds a result and no
\* error, or an error and an undefined result.
Fresh(q) == q.readyState = "pending" /\ q.result = "unset" /\ q.error = "unset"
HoldsOne(q) ==
    \/ q.result = "value" /\ q.error = "undefined"
    \/ q.result = "undefined" /\ q.error \in {OpErrorName, "AbortError"}

\* Every request the step created is fresh; every request there was still is.
CreatedFresh ==
    /\ Len(fdbRequests') >= Len(fdbRequests)
    /\ \A r \in (Len(fdbRequests) + 1)..Len(fdbRequests') :
           Fresh(fdbRequests'[r]) \/ \E t \in live : AbortEntered(t) \/ ProcessStep(t)

\* C18 as stated: a request starts fresh; over its lifetime it is set done at
\* most once (by its operation or by an abort, not both) and never leaves
\* done; a request with a source that has been executed is done and holds
\* either a result or an error.
C18_DoneAtMostOnce ==
    /\ [][CreatedFresh]_vars
    /\ [](\A r \in 1..Len(fdbRequests) :
            Cardinality(UNION {TerminalWrites(e) : e \in PairsOf(r)}) <= 1)
    /\ [][\A r \in 1..Len(fdbRequests) :
            fdbRequests[r].readyState = "done" =>
                fdbRequests'[r].readyState = "done"]_vars
    /\ [](\A e \in 1..Len(enqueued) :
            (Ran(e) /\ HasSource(e)) =>
                /\ fdbRequests[enqueued[e].request].readyState = "done"
                /\ HoldsOne(fdbRequests[enqueued[e].request]))

\* C18: a request starts fresh; each time it is enqueued (each execution
\* attempt) it is set done at most once, by its operation ending or by an
\* abort, not both; a done request becomes pending again only by being
\* enqueued again (a cursor's continuation), so a reused request can be set
\* done once per enqueue; a request with a source is fresh until its first
\* terminal write and from then on holds either a result (error unset) or an
\* error (result undefined), and it is done unless it has been enqueued again.
C18_DoneOncePerEnqueue ==
    /\ [][CreatedFresh]_vars
    /\ [](\A e \in 1..Len(enqueued) : Cardinality(TerminalWrites(e)) <= 1)
    /\ [][\A r \in 1..Len(fdbRequests) :
            (fdbRequests[r].readyState = "done"
                /\ fdbRequests'[r].readyState # "done") =>
                /\ fdbRequests[r].source
                /\ \E e \in (Len(enqueued) + 1)..Len(enqueued') :
                       enqueued'[e].request = r]_vars
    /\ [](\A r \in 1..Len(fdbRequests) :
            fdbRequests[r].source =>
                /\ Fresh(fdbRequests[r]) \/ HoldsOne(fdbRequests[r])
                /\ fdbRequests[r].readyState = "done" => HoldsOne(fdbRequests[r])
                /\ (\E e \in PairsOf(r) : Ran(e)) =>
                      /\ HoldsOne(fdbRequests[r])
                      /\ \/ fdbRequests[r].readyState = "done"
                         \/ \E e \in PairsOf(r) : ~Ran(e) /\ TerminalWrites(e) = {})

\* A request was executed and set done, a listener enqueued it again, and it
\* was set done a second time.
C18_Witness ==
    \E r \in 1..Len(fdbRequests) : \E e \in PairsOf(r) : \E f \in PairsOf(r) :
        /\ e < f
        /\ TerminalWrites(e) # {}
        /\ TerminalWrites(f) # {}
        /\ fdbRequests[r].readyState = "done"

\* C19: over a transaction's lifetime every compensation of its rollback log
\* is executed at most once.
C19_CompensationAtMostOnce ==
    \A c \in 1..Len(compRuns) : compRuns[c] <= 1

\* C20: a transaction dispatches at most one terminal event in all ("complete"
\* or "abort", never both, never "abort" twice), and its error field does not
\* change once the state is finished.
C20_OneTerminalEvent ==
    /\ [](\A t \in live : Completes(t) + Cardinality(AbortEvents(t)) <= 1)
    /\ [][\A t \in live : _state[t] = "finished" => error'[t] = error[t]]_vars

====
